---- MODULE Spec2Model ----
(***************************************************************************)
(* Model of the anonymous chat bot of src/main.go: the user table, the two *)
(* wait queues, the handlers startChat / matchUsers / stopChat /           *)
(* nextPartner / forwardMessage / setGender and the Run loop that          *)
(* dispatches one update at a time.  A step runs a handler up to the end   *)
(* of its next lock region (b.mu.Lock() .. b.mu.Unlock()) and the sends    *)
(* that follow it; the states between two lock regions of one handler      *)
(* (startChat's enqueue and its matchUsers call, nextPartner's stopChat    *)
(* and its startChat call) are states of the model.                        *)
(***************************************************************************)
EXTENDS Integers, Sequences, FiniteSets, TLC

\* ---------------------------------------------------------------- bounds
NumUsers == 2
MaxQueue == 2

\* Telegram user identities (non-zero int64; 0 is "no partner").  Spec takes
\* updates from Users; SpecMore from one identity more, for the scenarios
\* that need a third user.
Users == 1..NumUsers
MoreUsers == 1..(NumUsers + 1)
\* Message texts that are not one of the three commands.
Texts == {"hello"}

\* The goroutine of Run (main.go:57 ranges over the update channel in one
\* goroutine, so one update is handled at a time).
Threads == {1}

\* ------------------------------------------------------- program constants
Male == "male"
Female == "female"
NoGender == ""
NoPartner == 0

\* Texts handed to sendMessage / api.Send, one tag per literal of the source.
MsgWelcome == "welcome"
MsgGenderSet == "gender_set"
MsgNeedGender == "need_gender"
MsgAlreadyInChat == "already_in_chat"
MsgSearching == "searching"
MsgMatched == "matched"
MsgNotInChatStop == "not_in_chat_stop"
MsgStopped == "stopped"
MsgPartnerStopped == "partner_stopped"
MsgNotInChatFwd == "not_in_chat_fwd"

VARIABLES
    users,        \* b.users: identity -> UserState, created lazily
    maleQueue,    \* b.maleQueue
    femaleQueue,  \* b.femaleQueue
    pc,           \* per goroutine: the handler (lock region) it runs next
    cur,          \* per goroutine: the update being handled
    out,          \* per goroutine: transport calls of the update being handled
    mu            \* b.mu: the goroutine holding it, NoHolder when unlocked

vars == <<users, maleQueue, femaleQueue, pc, cur, out, mu>>

\* ------------------------------------------------------------ data model
ZeroState == [Gender |-> NoGender, Partner |-> NoPartner, Waiting |-> FALSE]

\* An outbound transport call: recipient, text, and whether b.mu was held.
Msg(to, text, locked) == [to |-> to, text |-> text, locked |-> locked]

Updates ==
    [kind : {"message"}, data : {"/start", "/stop", "/next"} \cup Texts]
    \cup [kind : {"callback"}, data : {"gender_male", "gender_female", "start_chat"}]

NoUpdate == [op |-> "none", data |-> "", user |-> 0]

\* Run / handleCallback: state, exists := b.users[userID]; insert when absent.
getOrCreate(us, userID) ==
    IF userID \in DOMAIN us
    THEN us
    ELSE [u \in (DOMAIN us) \cup {userID} |-> IF u = userID THEN ZeroState ELSE us[u]]

\* The switch of Run (text) and of handleCallback (data).
Dispatch(upd) ==
    IF upd.kind = "message"
    THEN CASE upd.data = "/start" -> "handleStart"
           [] upd.data = "/stop" -> "stopChat"
           [] upd.data = "/next" -> "nextPartner"
           [] OTHER -> "forwardMessage"
    ELSE CASE upd.data = "gender_male" -> "setGender"
           [] upd.data = "gender_female" -> "setGender"
           [] OTHER -> "startChat"

\* ------------------------------------------------------------ queue helpers
\* Position of the first occurrence of userID in q, 0 when absent.
IndexOf(q, userID) ==
    IF \E i \in 1..Len(q) : q[i] = userID
    THEN CHOOSE i \in 1..Len(q) : q[i] = userID /\ \A j \in 1..(i - 1) : q[j] # userID
    ELSE 0

\* append(q[:i], q[i+1:]...) with i the 1-based position.
RemoveAt(q, i) == SubSeq(q, 1, i - 1) \o SubSeq(q, i + 1, Len(q))

\* removeFromQueue: first occurrence in maleQueue, and return; otherwise the
\* first occurrence in femaleQueue.
removeFromQueue(mq, fq, userID) ==
    IF IndexOf(mq, userID) # 0
    THEN [male |-> RemoveAt(mq, IndexOf(mq, userID)), female |-> fq]
    ELSE IF IndexOf(fq, userID) # 0
         THEN [male |-> mq, female |-> RemoveAt(fq, IndexOf(fq, userID))]
         ELSE [male |-> mq, female |-> fq]

Count(q, userID) == Cardinality({i \in 1..Len(q) : q[i] = userID})
InQueue(q, userID) == \E i \in 1..Len(q) : q[i] = userID

\* ------------------------------------------------------------ pure steps
\* StartChatError without the Partner # 0 check (a faulty variant).
StartChatErrorNoPartnerCheck(state) ==
    IF state.Gender = NoGender THEN MsgNeedGender ELSE ""

\* MatchPair that does not clear Waiting on the pair (a faulty variant).
MatchPairKeepsWaiting(us, maleID, femaleID) ==
    LET us1 == [us EXCEPT ![maleID].Partner = femaleID]
    IN  [us1 EXCEPT ![femaleID].Partner = maleID]

\* startChat's validation: the text of the corrective notification, or ""
\* when the request is accepted.
StartChatError(state) ==
    IF state.Gender = NoGender THEN MsgNeedGender
    ELSE IF state.Partner # NoPartner THEN MsgAlreadyInChat
    ELSE ""

\* startChat's enqueue: append to the queue of the user's category.
Enqueue(mq, fq, gender, userID) ==
    IF gender = Male
    THEN [male |-> Append(mq, userID), female |-> fq]
    ELSE [male |-> mq, female |-> Append(fq, userID)]

\* One iteration of matchUsers' loop on the user table: the four field
\* assignments through the two pointers, in source order.
MatchPair(us, maleID, femaleID) ==
    LET us1 == [us EXCEPT ![maleID].Partner = femaleID]
        us2 == [us1 EXCEPT ![femaleID].Partner = maleID]
        us3 == [us2 EXCEPT ![maleID].Waiting = FALSE]
    IN  [us3 EXCEPT ![femaleID].Waiting = FALSE]

\* MatchLoop whose loop test is off by one, len > 1 on both queues (a faulty
\* variant).
RECURSIVE MatchLoopOffByOne(_, _, _, _, _)
MatchLoopOffByOne(us, mq, fq, sent, iters) ==
    IF Len(mq) > 1 /\ Len(fq) > 1
    THEN MatchLoopOffByOne(MatchPair(us, Head(mq), Head(fq)), Tail(mq), Tail(fq),
                           sent \o <<Msg(Head(mq), MsgMatched, TRUE),
                                     Msg(Head(fq), MsgMatched, TRUE)>>,
                           iters + 1)
    ELSE [users |-> us, male |-> mq, female |-> fq, sent |-> sent, iters |-> iters]

\* matchUsers' loop, run until one queue is empty.  sent collects the two
\* sendMessage calls of every iteration (issued with b.mu held: the unlock is
\* deferred); iters counts the iterations.
RECURSIVE MatchLoop(_, _, _, _, _)
MatchLoop(us, mq, fq, sent, iters) ==
    IF Len(mq) > 0 /\ Len(fq) > 0
    THEN LET maleID == Head(mq)
             femaleID == Head(fq)
         IN  MatchLoop(MatchPair(us, maleID, femaleID), Tail(mq), Tail(fq),
                       sent \o <<Msg(maleID, MsgMatched, TRUE),
                                 Msg(femaleID, MsgMatched, TRUE)>>,
                       iters + 1)
    ELSE [users |-> us, male |-> mq, female |-> fq, sent |-> sent, iters |-> iters]

\* stopChat's success path on the user table: state.Partner = 0 and
\* partnerState.Partner = 0 (Waiting is not written).
StopChatUsers(us, userID) ==
    LET partnerID == us[userID].Partner
        us1 == [us EXCEPT ![userID].Partner = NoPartner]
    IN  [us1 EXCEPT ![partnerID].Partner = NoPartner]

\* StopChatSends that swallows the not-in-chat text (a faulty variant).
StopChatSendsSilent(us, userID) ==
    IF us[userID].Partner = NoPartner
    THEN <<>>
    ELSE <<Msg(userID, MsgStopped, FALSE),
           Msg(us[userID].Partner, MsgPartnerStopped, FALSE)>>

\* stopChat's sends: the not-in-chat text to the caller when Partner is 0,
\* otherwise the initiator's text to the caller and the partner's text to the
\* partner; all after the unlock.
StopChatSends(us, userID) ==
    IF us[userID].Partner = NoPartner
    THEN <<Msg(userID, MsgNotInChatStop, FALSE)>>
    ELSE <<Msg(userID, MsgStopped, FALSE),
           Msg(us[userID].Partner, MsgPartnerStopped, FALSE)>>

\* forwardMessage's send, decided by the partner read under the lock.
ForwardSends(us, userID, text) ==
    IF us[userID].Partner # NoPartner
    THEN <<Msg(us[userID].Partner, text, FALSE)>>
    ELSE <<Msg(userID, MsgNotInChatFwd, FALSE)>>

\* stopChat's success path on the queues: removeFromQueue(userID) and then
\* removeFromQueue(partnerID).
StopChatQueues(mq, fq, userID, partnerID) ==
    LET q1 == removeFromQueue(mq, fq, userID)
    IN  removeFromQueue(q1.male, q1.female, partnerID)

\* ------------------------------------------------------------ lock protocol
\* The zero sync.Mutex: unlocked.
NoHolder == 0

\* matchUsersLocks without the deferred Unlock (a faulty variant).
matchUsersLocksNoDefer == <<"Lock">>

\* The b.mu calls of each function, in execution order, on every path.
\* Run / handleCallback: the lookup-or-create block.
getOrCreateLocks == <<"Lock", "Unlock">>
setGenderLocks == <<"Lock", "Unlock">>
\* startChat: Unlock before each error return, and after the enqueue.
startChatLocks(err) ==
    IF err = MsgNeedGender THEN <<"Lock", "Unlock">>
    ELSE IF err = MsgAlreadyInChat THEN <<"Lock", "Unlock">>
    ELSE <<"Lock", "Unlock">>
\* matchUsers: Lock, and the deferred Unlock at return.
matchUsersLocks == <<"Lock", "Unlock">>
\* stopChat: Unlock before the early return, and after the queue removals.
stopChatLocks(partnerID) ==
    IF partnerID = NoPartner THEN <<"Lock", "Unlock">> ELSE <<"Lock", "Unlock">>
forwardMessageLocks == <<"Lock", "Unlock">>

\* sync.Mutex run by goroutine t from holder h over the calls ops: Lock on a
\* held mutex blocks (the mutex is not reentrant), Unlock frees it.
RECURSIVE LockTrace(_, _, _)
LockTrace(h, t, ops) ==
    IF ops = <<>>
    THEN [holder |-> h, blocked |-> FALSE]
    ELSE IF Head(ops) = "Lock"
         THEN IF h = NoHolder
              THEN LockTrace(t, t, Tail(ops))
              ELSE [holder |-> h, blocked |-> TRUE]
         ELSE LockTrace(NoHolder, t, Tail(ops))

\* Goroutine t gets through the calls ops without blocking.
Locks(t, ops) ==
    /\ ~LockTrace(mu, t, ops).blocked
    /\ mu' = LockTrace(mu, t, ops).holder

\* ------------------------------------------------------------------- Init
\* NewBot: empty user table, nil queues; Run is about to receive.
Init ==
    /\ users = [u \in {} |-> ZeroState]
    /\ maleQueue = <<>>
    /\ femaleQueue = <<>>
    /\ pc = [t \in Threads |-> "idle"]
    /\ cur = [t \in Threads |-> NoUpdate]
    /\ out = [t \in Threads |-> <<>>]
    /\ mu = NoHolder

\* ---------------------------------------------------------------- actions
\* The queue startChat(userID) would append to has room (MaxQueue bounds the
\* model; the source's slices are unbounded).
HasRoom(userID) ==
    userID \in DOMAIN users =>
        /\ users[userID].Gender = Male => Len(maleQueue) < MaxQueue
        /\ users[userID].Gender = Female => Len(femaleQueue) < MaxQueue

\* Run's loop body / handleCallback's head: take update upd of userID when it
\* selects handler op.  Updates that may enqueue are taken only while the
\* queue they append to is below MaxQueue.
Receive(t, userID, upd, op) ==
    /\ pc[t] = "idle"
    /\ upd \in Updates
    /\ Dispatch(upd) = op
    /\ op \in {"startChat", "nextPartner"} => HasRoom(userID)
    /\ cur' = [cur EXCEPT ![t] = [op |-> op, data |-> upd.data, user |-> userID]]

\* The transport calls of the update in hand, in order.
Send(t, before, msgs) == out' = [out EXCEPT ![t] = before \o msgs]

Goto(t, label) == pc' = [pc EXCEPT ![t] = label]

\* "/start": handleStart, after Run created the user's state.
handleStart(t, userID) ==
    /\ Receive(t, userID, [kind |-> "message", data |-> "/start"], "handleStart")
    /\ Locks(t, getOrCreateLocks)
    /\ users' = getOrCreate(users, userID)
    /\ Send(t, <<>>, <<Msg(userID, MsgWelcome, FALSE)>>)
    /\ Goto(t, "done")
    /\ UNCHANGED <<maleQueue, femaleQueue>>

\* "gender_male" / "gender_female": setGender.
setGender(t, userID, data) ==
    /\ data \in {"gender_male", "gender_female"}
    /\ Receive(t, userID, [kind |-> "callback", data |-> data], "setGender")
    /\ Locks(t, getOrCreateLocks \o setGenderLocks)
    /\ LET gender == IF data = "gender_male" THEN Male ELSE Female
       IN  users' = [getOrCreate(users, userID) EXCEPT ![userID].Gender = gender]
    /\ Send(t, <<>>, <<Msg(userID, MsgGenderSet, FALSE)>>)
    /\ Goto(t, "done")
    /\ UNCHANGED <<maleQueue, femaleQueue>>

\* startChat up to its call of matchUsers, on user table us: validation,
\* Waiting = true, enqueue (one lock region), then the "searching" send.
\* before and beforeLocks are the sends and the b.mu calls the goroutine made
\* earlier in this step.
StartChatBody(t, us, userID, before, beforeLocks) ==
    LET state == us[userID]
        err == StartChatError(state)
        q == Enqueue(maleQueue, femaleQueue, state.Gender, userID)
    IN  IF err # ""
        THEN /\ Locks(t, beforeLocks \o startChatLocks(err))
             /\ users' = us
             /\ Send(t, before, <<Msg(userID, err, FALSE)>>)
             /\ Goto(t, "done")
             /\ UNCHANGED <<maleQueue, femaleQueue>>
        ELSE /\ Locks(t, beforeLocks \o startChatLocks(err))
             /\ users' = [us EXCEPT ![userID].Waiting = TRUE]
             /\ maleQueue' = q.male
             /\ femaleQueue' = q.female
             /\ Send(t, before, <<Msg(userID, MsgSearching, FALSE)>>)
             /\ Goto(t, "matchUsers")

\* "start_chat": startChat called by handleCallback.
startChat(t, userID) ==
    /\ Receive(t, userID, [kind |-> "callback", data |-> "start_chat"], "startChat")
    /\ StartChatBody(t, getOrCreate(users, userID), userID, <<>>, getOrCreateLocks)

\* matchUsers, called at the end of startChat: the whole loop under the lock.
matchUsers(t) ==
    /\ pc[t] = "matchUsers"
    /\ Locks(t, matchUsersLocks)
    /\ LET r == MatchLoop(users, maleQueue, femaleQueue, <<>>, 0)
       IN  /\ users' = r.users
           /\ maleQueue' = r.male
           /\ femaleQueue' = r.female
           /\ Send(t, out[t], r.sent)
    /\ Goto(t, "done")
    /\ UNCHANGED cur

\* The body of stopChat on user table us; the goroutine goes on at `then`.
StopChatBody(t, us, userID, then) ==
    LET state == us[userID]
        partnerID == state.Partner
        q == StopChatQueues(maleQueue, femaleQueue, userID, partnerID)
    IN  /\ Locks(t, getOrCreateLocks \o stopChatLocks(partnerID))
        /\ IF state.Partner = NoPartner
           THEN /\ users' = us
                /\ UNCHANGED <<maleQueue, femaleQueue>>
           ELSE /\ users' = StopChatUsers(us, userID)
                /\ maleQueue' = q.male
                /\ femaleQueue' = q.female
        /\ Send(t, <<>>, StopChatSends(us, userID))
        /\ Goto(t, then)

\* "/stop": stopChat.
stopChat(t, userID) ==
    /\ Receive(t, userID, [kind |-> "message", data |-> "/stop"], "stopChat")
    /\ StopChatBody(t, getOrCreate(users, userID), userID, "done")

\* "/next": nextPartner's call of stopChat.
nextPartner(t, userID) ==
    /\ Receive(t, userID, [kind |-> "message", data |-> "/next"], "nextPartner")
    /\ StopChatBody(t, getOrCreate(users, userID), userID, "startChat")

\* nextPartner's call of startChat, after its stopChat returned.
nextPartnerStart(t) ==
    /\ pc[t] = "startChat"
    /\ StartChatBody(t, users, cur[t].user, out[t], <<>>)
    /\ UNCHANGED cur

\* Any other text: forwardMessage.
forwardMessage(t, userID, text) ==
    /\ Receive(t, userID, [kind |-> "message", data |-> text], "forwardMessage")
    /\ Locks(t, getOrCreateLocks \o forwardMessageLocks)
    /\ users' = getOrCreate(users, userID)
    /\ Send(t, <<>>, ForwardSends(getOrCreate(users, userID), userID, text))
    /\ Goto(t, "done")
    /\ UNCHANGED <<maleQueue, femaleQueue>>

\* The handler returned: Run's loop takes the next update.  (After a callback
\* handleCallback also answers the callback and deletes the keyboard message:
\* two api.Request calls that read and write none of the bot's state.)
Return(t) ==
    /\ pc[t] = "done"
    /\ Goto(t, "idle")
    /\ cur' = [cur EXCEPT ![t] = NoUpdate]
    /\ out' = [out EXCEPT ![t] = <<>>]
    /\ UNCHANGED <<users, maleQueue, femaleQueue, mu>>

Next ==
    \/ \E t \in Threads, userID \in Users : handleStart(t, userID)
    \/ \E t \in Threads, userID \in Users, data \in {"gender_male", "gender_female"} :
          setGender(t, userID, data)
    \/ \E t \in Threads, userID \in Users : startChat(t, userID)
    \/ \E t \in Threads : matchUsers(t)
    \/ \E t \in Threads, userID \in Users : stopChat(t, userID)
    \/ \E t \in Threads, userID \in Users : nextPartner(t, userID)
    \/ \E t \in Threads : nextPartnerStart(t)
    \/ \E t \in Threads, userID \in Users, text \in Texts : forwardMessage(t, userID, text)
    \/ \E t \in Threads : Return(t)

Spec == Init /\ [][Next]_vars

\* The same handlers with updates from MoreUsers.
NextMore ==
    \/ \E t \in Threads, userID \in MoreUsers : handleStart(t, userID)
    \/ \E t \in Threads, userID \in MoreUsers, data \in {"gender_male", "gender_female"} :
          setGender(t, userID, data)
    \/ \E t \in Threads, userID \in MoreUsers : startChat(t, userID)
    \/ \E t \in Threads : matchUsers(t)
    \/ \E t \in Threads, userID \in MoreUsers : stopChat(t, userID)
    \/ \E t \in Threads, userID \in MoreUsers : nextPartner(t, userID)
    \/ \E t \in Threads : nextPartnerStart(t)
    \/ \E t \in Threads, userID \in MoreUsers, text \in Texts :
          forwardMessage(t, userID, text)
    \/ \E t \in Threads : Return(t)

SpecMore == Init /\ [][NextMore]_vars

TypeOK ==
    /\ DOMAIN users \subseteq MoreUsers
    /\ \A u \in DOMAIN users :
          /\ users[u].Gender \in {NoGender, Male, Female}
          /\ users[u].Partner \in MoreUsers \cup {NoPartner}
          /\ users[u].Waiting \in BOOLEAN
    /\ mu \in Threads \cup {NoHolder}

\* ------------------------------------------------------------ vocabulary
Known == DOMAIN users
Queued(u) == InQueue(maleQueue, u) \/ InQueue(femaleQueue, u)
Entries(u) == Count(maleQueue, u) + Count(femaleQueue, u)
IsIdle(u) == users[u].Partner = NoPartner /\ ~users[u].Waiting
T == CHOOSE t \in Threads : TRUE
\* The state a handler finds for u (Run creates the zero state when absent).
StateOf(us, u) == IF u \in DOMAIN us THEN us[u] ELSE ZeroState
\* No user's Gender/Partner/Waiting and no queue changes in this step.
SharedUnchanged ==
    /\ \A u \in MoreUsers : StateOf(users', u) = StateOf(users, u)
    /\ maleQueue' = maleQueue
    /\ femaleQueue' = femaleQueue
\* The step in which handler op is entered for the update just received.
Enters(t, op) == pc[t] = "idle" /\ cur'[t].op = op
\* The messages of out[t] addressed to u.
SentTo(t, u) == {i \in 1..Len(out[t]) : out[t][i].to = u}
Texts_(t) == {out[t][i].text : i \in 1..Len(out[t])}

\* ------------------------------------------------------------------ C1
\* C1: the partner relation is symmetric in every reachable state: for all
\* users A and B, A.Partner = B if and only if B.Partner = A.
C1_PartnerSymmetry ==
    \A a \in Known, b \in Known :
        (users[a].Partner = b) <=> (users[b].Partner = a)

\* ------------------------------------------------------------------ C2
\* C2: no identity is in both queues and none is twice in one queue.
C2_QueueUnique == \A u \in MoreUsers : Entries(u) <= 1

\* ------------------------------------------------------------------ C3
\* C3: in every reachable state, also between the lock regions of a handler,
\* no user has Waiting = true together with Partner # 0.
C3_NotWaitingAndPaired ==
    \A u \in Known : ~(users[u].Waiting /\ users[u].Partner # NoPartner)

\* Between startChat's enqueue and its matchUsers call: the heads of the two
\* queues are two waiting users, about to be paired.
C3_Witness ==
    /\ pc[T] = "matchUsers"
    /\ Len(maleQueue) > 0 /\ Len(femaleQueue) > 0
    /\ users[Head(maleQueue)].Waiting /\ users[Head(femaleQueue)].Waiting
    /\ Head(maleQueue) # Head(femaleQueue)

\* ------------------------------------------------------------------ C4
\* C4: every identity in maleQueue or femaleQueue has Waiting = true and
\* Partner = 0.
C4_QueuedAreWaiting ==
    \A u \in MoreUsers :
        Queued(u) => u \in Known /\ users[u].Waiting /\ users[u].Partner = NoPartner

\* ------------------------------------------------------------------ C5
Drop(q, k) == SubSeq(q, k + 1, Len(q))
\* C5: matching is FIFO.  In every run of matchUsers the users paired are the
\* heads of the two queues (the queues left are the old ones without their
\* first k entries, order kept), a user behind another waiting user of its
\* queue is not paired unless that one is, and every user left behind in a
\* queue stays WAITING (Waiting = true, Partner = 0).
C5_FIFO ==
    [][\A t \in Threads :
        (pc[t] = "matchUsers" /\ pc'[t] = "done") =>
            LET k == Len(maleQueue) - Len(maleQueue')
            IN  /\ k >= 0
                /\ maleQueue' = Drop(maleQueue, k)
                /\ femaleQueue' = Drop(femaleQueue, k)
                /\ \A i \in 1..Len(maleQueue), j \in 1..Len(maleQueue) :
                      (i < j /\ users[maleQueue[i]].Waiting /\ j <= k) => i <= k
                /\ \A u \in MoreUsers :
                      (InQueue(maleQueue', u) \/ InQueue(femaleQueue', u)) =>
                          users'[u].Waiting /\ users'[u].Partner = NoPartner
      ]_vars

\* ------------------------------------------------------------------ C6
\* C6: a failing operation changes no user's state and no queue, and sends
\* exactly one corrective notification, to the requester: startChat with
\* Gender unset, startChat with Partner # 0, stopChat with Partner = 0 (called
\* for "/stop" or inside nextPartner, by an idle or a waiting user).
C6_FailureLeavesState ==
    [][\A t \in Threads :
        LET u == cur'[t].user
            st == StateOf(users, u)
        IN  /\ ((Enters(t, "startChat") \/ pc[t] = "startChat") /\ st.Gender = NoGender)
                  => /\ SharedUnchanged
                     /\ out'[t] = out[t] \o <<Msg(u, MsgNeedGender, FALSE)>>
                     /\ pc'[t] = "done"
            /\ ((Enters(t, "startChat") \/ pc[t] = "startChat")
                   /\ st.Gender # NoGender /\ st.Partner # NoPartner)
                  => /\ SharedUnchanged
                     /\ out'[t] = out[t] \o <<Msg(u, MsgAlreadyInChat, FALSE)>>
                     /\ pc'[t] = "done"
            /\ ((Enters(t, "stopChat") \/ Enters(t, "nextPartner")) /\ st.Partner = NoPartner)
                  => /\ SharedUnchanged
                     /\ out'[t] = <<Msg(u, MsgNotInChatStop, FALSE)>>
      ]_vars

\* A paired user's startChat was refused, and a waiting user's stopChat was
\* refused while another user's state could have been touched.
C6_Witness ==
    \/ /\ pc[T] = "done" /\ cur[T].op = "startChat"
       /\ out[T] = <<Msg(cur[T].user, MsgAlreadyInChat, FALSE)>>
       /\ users[cur[T].user].Partner \notin {NoPartner, cur[T].user}
    \/ /\ pc[T] = "done" /\ cur[T].op = "stopChat"
       /\ out[T] = <<Msg(cur[T].user, MsgNotInChatStop, FALSE)>>
       /\ users[cur[T].user].Waiting
       /\ Queued(cur[T].user)

\* ------------------------------------------------------------------ C7
\* stopChat has just returned on its success path (for "/stop" or inside
\* nextPartner): its two termination texts are the sends of the update so far.
StopSucceeded(t) ==
    /\ \/ pc[t] = "done" /\ cur[t].op = "stopChat"
       \/ pc[t] = "startChat"
    /\ Len(out[t]) = 2
    /\ out[t][1].text = MsgStopped

\* C7: after a successful stopChat(X) with partner Y both are IDLE (Partner = 0,
\* Waiting = false), neither is in a queue, X got the initiator's text and Y
\* the (different) partner's text, and a stopChat(X) that follows is refused
\* with the not-in-chat text.
C7_StopChatEndsIdle ==
    \A t \in Threads :
        StopSucceeded(t) =>
            LET X == cur[t].user
                Y == out[t][2].to
            IN  /\ IsIdle(X) /\ IsIdle(Y)
                /\ ~Queued(X) /\ ~Queued(Y)
                /\ out[t] = <<Msg(X, MsgStopped, FALSE), Msg(Y, MsgPartnerStopped, FALSE)>>
                /\ MsgStopped # MsgPartnerStopped
                /\ StopChatSends(users, X) = <<Msg(X, MsgNotInChatStop, FALSE)>>

\* ------------------------------------------------------------------ C8
OwnQueue(u) == IF users[u].Gender = Male THEN maleQueue ELSE femaleQueue
\* C8: when nextPartner(X) has finished for a user X with a category: if X was
\* paired with Y, Y was told of the termination and is IDLE and in no queue;
\* and if X was not matched again, X is WAITING with exactly one queue entry,
\* in the queue of its category.
C8_NextReentersWaiting ==
    \A t \in Threads :
        (pc[t] = "done" /\ cur[t].op = "nextPartner"
           /\ users[cur[t].user].Gender # NoGender) =>
            LET X == cur[t].user
            IN  /\ (Len(out[t]) >= 2 /\ out[t][1].text = MsgStopped) =>
                      LET Y == out[t][2].to
                      IN  /\ out[t][2] = Msg(Y, MsgPartnerStopped, FALSE)
                          /\ IsIdle(Y) /\ ~Queued(Y)
                /\ users[X].Partner = NoPartner =>
                      /\ users[X].Waiting
                      /\ Count(OwnQueue(X), X) = 1
                      /\ Entries(X) = 1

\* ------------------------------------------------------------------ C9
TerminationTexts == {MsgStopped, MsgPartnerStopped}
\* C9 as stated: nextPartner(X) with X.Partner = 0 sends nothing in its
\* stopChat step (no not-in-chat text, no termination text).
C9_NextSuppressesError ==
    [][\A t \in Threads :
        (Enters(t, "nextPartner") /\ StateOf(users, cur'[t].user).Partner = NoPartner)
            => out'[t] = <<>>
      ]_vars

\* C9 as amended: nextPartner(X) with X.Partner = 0 sends exactly one
\* not-in-chat text, to X, in its stopChat step, changes no state there and
\* goes on to startChat; no termination text is sent to anyone, and what
\* follows the not-in-chat text are the sends of the startChat step.
C9_NextNotifiesNotInChat ==
    /\ [][\A t \in Threads :
            (Enters(t, "nextPartner") /\ StateOf(users, cur'[t].user).Partner = NoPartner)
                => /\ out'[t] = <<Msg(cur'[t].user, MsgNotInChatStop, FALSE)>>
                   /\ SharedUnchanged
                   /\ pc'[t] = "startChat"
          ]_vars
    /\ [](\A t \in Threads :
            (cur[t].op = "nextPartner" /\ Len(out[t]) >= 1
               /\ out[t][1].text = MsgNotInChatStop) =>
                /\ Texts_(t) \cap TerminationTexts = {}
                /\ \A i \in 2..Len(out[t]) :
                      out[t][i].text \in {MsgNeedGender, MsgSearching, MsgMatched})

\* A waiting user's "/next" has finished: it was told "not in chat" and then
\* "searching".
C9_Witness ==
    /\ pc[T] = "done" /\ cur[T].op = "nextPartner"
    /\ Len(out[T]) >= 2
    /\ out[T][1] = Msg(cur[T].user, MsgNotInChatStop, FALSE)
    /\ out[T][2] = Msg(cur[T].user, MsgSearching, FALSE)

\* ------------------------------------------------------------------ C10
\* C10: forwardMessage(X, text) changes no state; with X.Partner = P # 0 it
\* sends exactly one message, the text unchanged, to P and nothing to X; with
\* X.Partner = 0 it sends exactly one not-in-chat text to X and nothing to
\* anyone else.
C10_ForwardFrame ==
    [][\A t \in Threads :
        Enters(t, "forwardMessage") =>
            LET X == cur'[t].user
                P == StateOf(users, X).Partner
            IN  /\ SharedUnchanged
                /\ Len(out'[t]) = 1
                /\ P # NoPartner =>
                      /\ out'[t][1].to = P
                      /\ out'[t][1].text = cur'[t].data
                      /\ \A i \in 1..Len(out'[t]) : out'[t][i].to # X
                /\ P = NoPartner =>
                      out'[t] = <<Msg(X, MsgNotInChatFwd, FALSE)>>
      ]_vars

\* ------------------------------------------------------------------ C11
\* C11: when a WAITING user (enqueued, Partner = 0) leaves with "/stop" or
\* "/next", stopChat removes the queue entry it held and keeps the order of
\* the others, so that a later arrival cannot be paired with it.
C11_WaitingLeaveDequeues ==
    [][\A t \in Threads :
        LET u == cur'[t].user
            st == StateOf(users, u)
            q == removeFromQueue(maleQueue, femaleQueue, u)
        IN  ((Enters(t, "stopChat") \/ Enters(t, "nextPartner"))
               /\ st.Waiting /\ st.Partner = NoPartner /\ Queued(u))
              => /\ maleQueue' = q.male
                 /\ femaleQueue' = q.female
                 /\ ~InQueue(maleQueue', u) /\ ~InQueue(femaleQueue', u)
      ]_vars

\* ------------------------------------------------------------------ C12
Opposite(g, h) == {g, h} = {Male, Female}
\* C12: every pairing made by matchUsers joins a Male and a Female user: a
\* user whose Partner is set in a matchUsers step and the partner it is given
\* are of opposite category at that moment.
C12_OppositeCategories ==
    [][\A t \in Threads :
        (pc[t] = "matchUsers" /\ pc'[t] = "done") =>
            \A u \in Known :
                (users'[u].Partner # users[u].Partner /\ users'[u].Partner # NoPartner)
                    => Opposite(users'[u].Gender, users'[users'[u].Partner].Gender)
      ]_vars

\* ------------------------------------------------------------------ C13
\* C13: no transport call is issued while b.mu is held: every send of every
\* handler, matchUsers' "matched" notifications included, comes after the
\* unlock.
C13_NoSendUnderLock ==
    \A t \in Threads : \A i \in 1..Len(out[t]) : ~out[t][i].locked

\* ------------------------------------------------------------------ C15
\* C15: matchUsers gives no new partner to a user that has one: a non-zero
\* Partner is the same after every matchUsers step.
C15_NoRepairing ==
    [][\A t \in Threads :
        (pc[t] = "matchUsers" /\ pc'[t] = "done") =>
            \A u \in Known :
                users[u].Partner # NoPartner => users'[u].Partner = users[u].Partner
      ]_vars

\* ------------------------------------------------------------------ C14
\* C14: startChat is one critical region: a goroutine that has enqueued its
\* user and has not yet run the matching pass still holds b.mu, so no other
\* goroutine's lock region fits in between.
C14_StartChatOneRegion ==
    \A t \in Threads : pc[t] = "matchUsers" => mu = t

\* ------------------------------------------------------------------ C16
\* C16: matchUsers runs to a fixed point.  In every state in which no
\* startChat is between its enqueue and its matchUsers call (so also right
\* after matchUsers returned) one of the two queues is empty, and a further
\* matchUsers call would change no user, no queue and send nothing.
C16_FixedPoint ==
    (\A t \in Threads : pc[t] # "matchUsers") =>
        /\ Len(maleQueue) = 0 \/ Len(femaleQueue) = 0
        /\ LET r == MatchLoop(users, maleQueue, femaleQueue, <<>>, 0)
           IN  /\ r.users = users
               /\ r.male = maleQueue
               /\ r.female = femaleQueue
               /\ r.sent = <<>>

\* matchUsers has just returned after pairing two users, and left a queue
\* that is not empty.
C16_Witness ==
    /\ pc[T] = "done" /\ cur[T].op \in {"startChat", "nextPartner"}
    /\ MsgMatched \in Texts_(T)
    /\ Len(maleQueue) + Len(femaleQueue) > 0

\* ------------------------------------------------------------------ C17
MatchedTo(msgs, u) ==
    {i \in 1..Len(msgs) : msgs[i].to = u /\ msgs[i].text = MsgMatched}
\* C17: startChat(Y) has enqueued Y into its empty queue.  If the opposite
\* queue holds exactly one waiting user X, matchUsers makes X and Y each
\* other's partner, clears Waiting on both, empties both queues and sends
\* exactly one "matched" text to X and one to Y, Y's after its "searching"
\* text.  If the opposite queue is empty, Y stays WAITING, its queue is <<Y>>
\* and no "matched" text is sent.
C17_StartChatPairs ==
    [][\A t \in Threads :
        (pc[t] = "matchUsers" /\ pc'[t] = "done") =>
            LET Y == cur[t].user
                own == IF users[Y].Gender = Male THEN maleQueue ELSE femaleQueue
                opp == IF users[Y].Gender = Male THEN femaleQueue ELSE maleQueue
                own2 == IF users[Y].Gender = Male THEN maleQueue' ELSE femaleQueue'
            IN  /\ (own = <<Y>> /\ Len(opp) = 1 /\ users[Head(opp)].Waiting) =>
                     LET X == Head(opp)
                     IN  /\ users'[X].Partner = Y /\ users'[Y].Partner = X
                         /\ ~users'[X].Waiting /\ ~users'[Y].Waiting
                         /\ maleQueue' = <<>> /\ femaleQueue' = <<>>
                         /\ Cardinality(MatchedTo(out'[t], X)) = 1
                         /\ Cardinality(MatchedTo(out'[t], Y)) = 1
                         /\ \E i \in 1..Len(out'[t]) :
                               /\ out'[t][i] = Msg(Y, MsgSearching, FALSE)
                               /\ \A j \in MatchedTo(out'[t], Y) : i < j
                /\ (own = <<Y>> /\ opp = <<>>) =>
                     /\ users'[Y].Waiting /\ users'[Y].Partner = NoPartner
                     /\ own2 = <<Y>>
                     /\ \A i \in 1..Len(out'[t]) : out'[t][i].text # MsgMatched
      ]_vars

\* ------------------------------------------------------------------ C18
\* C18: no user is its own partner.
C18_NoSelfPairing == \A u \in Known : users[u].Partner # u

\* ------------------------------------------------------------------ C19
Min(a, b) == IF a < b THEN a ELSE b
\* C19: the lock protocol is deadlock-free and every operation terminates.
\* b.mu is free whenever a goroutine is between two steps (every path
\* released it), no step blocks on b.mu (the next step of a started operation
\* is enabled, and so is every handler for every user when Run is about to
\* receive), and matchUsers' loop makes at most min(len(maleQueue),
\* len(femaleQueue)) iterations.
C19_LockProtocol ==
    /\ mu = NoHolder
    /\ \A t \in Threads :
          /\ pc[t] = "matchUsers" =>
                /\ ENABLED matchUsers(t)
                /\ MatchLoop(users, maleQueue, femaleQueue, <<>>, 0).iters
                      <= Min(Len(maleQueue), Len(femaleQueue))
          /\ pc[t] = "startChat" => ENABLED nextPartnerStart(t)
          /\ pc[t] = "done" => ENABLED Return(t)
          /\ pc[t] = "idle" =>
                \A u \in Users :
                    /\ ENABLED handleStart(t, u)
                    /\ ENABLED setGender(t, u, "gender_male")
                    /\ ENABLED stopChat(t, u)
                    /\ \A text \in Texts : ENABLED forwardMessage(t, u, text)
                    /\ HasRoom(u) => ENABLED startChat(t, u) /\ ENABLED nextPartner(t, u)

\* A "/next" has run to its end through stopChat, startChat and a matchUsers
\* pass that paired two users, and b.mu is free again.
C19_Witness ==
    /\ pc[T] = "done" /\ cur[T].op = "nextPartner"
    /\ \E i \in 1..Len(out[T]) : out[T][i] = Msg(cur[T].user, MsgMatched, TRUE)
    /\ mu = NoHolder

====
